---- MODULE Spec2Model ----
(***************************************************************************)
(* Drone station optimizer (src/app.py): a Streamlit script.  Every script *)
(* run executes the file top to bottom.  The model covers the upload panel *)
(* (session flag box_open, auto-close, reset), the projection code         *)
(* selection, the per-station coverage index, the capped brute-force       *)
(* combination optimizer and the coverage metrics.                         *)
(*                                                                         *)
(* Distances are integer centimetres, areas are counted in unit cells of   *)
(* the metric plane, longitudes are integer degrees.                       *)
(***************************************************************************)
EXTENDS Integers, Sequences, FiniteSets, TLC

(* ------------------------------ bounds -------------------------------- *)
\* stations in the station lists with one demand point per covering station
MaxStations == 12
\* stations in the station lists with arbitrary distances, names and areas
MaxSmall == 3
\* raw incident records in the arbitrary lists
MaxCalls == 2
\* latitudes of the boundary centroid, in degrees either side of the equator
MaxLat == 1
\* uploaded shapefile components
MaxShapes == 5
\* script runs counted in one chain of reruns
MaxChain == 6

(* ------------------------- program constants -------------------------- *)
\* radius_m = 3218.69, in centimetres
radius_m == 321869
\* if len(combos) > 500: combos = combos[:500]
ComboCap == 500

VARIABLES
    \* uploaded data
    df_calls,           \* per raw incident: does it lie within city_boundary
    df_stations_all,    \* per station row: name, dist (cm, per raw incident), buffer (cells)
    \* one run of the main logic
    pc,                 \* "idle" | "done" | "error" (System Error shown by the except branch)
    total_calls,
    station_metadata,
    k,
    strategy,
    combos,
    best_combo,
    max_val,
    active_data,        \* positions (0-based) of the station_metadata entries kept
    all_ids,
    cap_perc,           \* <<numerator, denominator>>
    uncovered,
    \* projection code selection
    centroid,           \* city_boundary.centroid: [x |-> longitude, y |-> latitude], degrees
    utm_zone,
    epsg_code,          \* the decimal digits of the string handed to to_crs(epsg=...)
    \* upload panel
    box_open,           \* st.session_state.box_open
    call_data,          \* calls.csv is among the uploaded files
    station_data,       \* stations.csv is among the uploaded files
    shape_components,   \* number of uploaded .shp/.shx/.dbf/.prj files
    run_pending,        \* a script run is queued (user event or st.rerun())
    reset_clicked,      \* the queued run was started by the Reset button
    reset_shown,        \* the last run rendered the Reset button
    last_run,           \* what the last run did: [auto_close, main, reset]
    chain,              \* script runs since the last user event
    was_complete        \* calls.csv, stations.csv and >= 4 components were uploaded at some time

optVars == <<df_calls, df_stations_all, pc, total_calls, station_metadata, k, strategy,
             combos, best_combo, max_val, active_data, all_ids, cap_perc, uncovered>>

projVars == <<centroid, utm_zone, epsg_code>>

uiVars == <<box_open, call_data, station_data, shape_components, run_pending,
            reset_clicked, reset_shown, last_run, chain, was_complete>>

vars == <<optVars, projVars, uiVars>>

\* Python's None for best_combo (no valid combination is <<-1>>)
None == <<-1>>
\* cells of the metric plane inside the jurisdiction (city_m); cell 0 lies outside
city_m == 1..(MaxStations + 2)

(* ------------------------- coverage index ----------------------------- *)
\* calls_in_city = gdf_calls[gdf_calls.within(city_boundary)]: the raw rows kept, in order
RECURSIVE CallsInCity(_, _)
CallsInCity(calls, j) ==
    IF j > Len(calls) THEN <<>>
    ELSE (IF calls[j] THEN <<j>> ELSE <<>>) \o CallsInCity(calls, j + 1)

\* (variant: the open interval, distance < radius_m)
MaskOpen(row, inCity, p) == row.dist[inCity[p]] < radius_m

\* mask = calls_in_city.geometry.distance(s_pt_m) <= radius_m
Mask(row, inCity, p) == row.dist[inCity[p]] <= radius_m

\* (variant: the row labels of the raw incidents, set(calls_in_city[mask].index))
IndicesRowLabels(row, inCity) == {inCity[p] - 1 : p \in {q \in 1..Len(inCity) : Mask(row, inCity, q)}}

\* 'indices': set(calls_in_city[mask]['point_idx']), point_idx = range(len(calls_in_city))
Indices(row, inCity) == {p - 1 : p \in {q \in 1..Len(inCity) : Mask(row, inCity, q)}}

\* one station_metadata entry
StationEntry(row, inCity) ==
    [name |-> row.name,
     indices |-> Indices(row, inCity),
     clipped_m |-> row.buffer \cap city_m]

\* station_metadata = []; for i, row in df_stations_all.iterrows(): station_metadata.append(...)
RECURSIVE StationMetadata(_, _, _)
StationMetadata(stations, inCity, n) ==
    IF n = 0 THEN <<>>
    ELSE Append(StationMetadata(stations, inCity, n - 1), StationEntry(stations[n], inCity))

(* ---------------------------- optimizer ------------------------------- *)
\* itertools.combinations(range(n), k): the k-tuples of lo..n-1 in lexicographic order
RECURSIVE CombosFrom(_, _, _)
CombosFrom(lo, n, kk) ==
    IF kk = 0 THEN << <<>> >>
    ELSE IF n - lo < kk THEN <<>>
    ELSE LET withLo == CombosFrom(lo + 1, n, kk - 1)
         IN  [i \in 1..Len(withLo) |-> <<lo>> \o withLo[i]] \o CombosFrom(lo + 1, n, kk)

\* list(itertools.combinations(range(n), k)) for every n and k the model uses
CombinationsTable ==
    [n \in 0..MaxStations |-> [kk \in 0..n |-> CombosFrom(0, n, kk)]]

Combinations(n, kk) == CombinationsTable[n][kk]

\* (variant: the last 500, combos[-500:])
TruncateLast(cs) == IF Len(cs) > ComboCap THEN SubSeq(cs, Len(cs) - ComboCap + 1, Len(cs)) ELSE cs

\* if len(combos) > 500: combos = combos[:500]
Truncate(cs) == IF Len(cs) > ComboCap THEN SubSeq(cs, 1, ComboCap) ELSE cs

\* (variant: the identifiers every station of the combination covers,
\* set.intersection in place of union)
VolumeValCommon(meta, combo) ==
    Cardinality({x \in UNION {meta[combo[i] + 1].indices : i \in 1..Len(combo)} :
                    \A i \in 1..Len(combo) : x \in meta[combo[i] + 1].indices})

\* len(set().union(*(station_metadata[i]['indices'] for i in combo)))
VolumeVal(meta, combo) ==
    Cardinality(UNION {meta[combo[i] + 1].indices : i \in 1..Len(combo)})

\* unary_union([station_metadata[i]['clipped_m'] for i in combo]).area
AreaVal(meta, combo) ==
    Cardinality(UNION {meta[combo[i] + 1].clipped_m : i \in 1..Len(combo)})

Val(meta, combo, mode) ==
    IF mode = "Max Response Volume" THEN VolumeVal(meta, combo) ELSE AreaVal(meta, combo)

\* (variant: if val >= max_val)
LoopBodyLast(acc, combo, val) ==
    IF val >= acc.max_val THEN [max_val |-> val, best_combo |-> combo] ELSE acc

\* if val > max_val: max_val = val; best_combo = combo
LoopBody(acc, combo, val) ==
    IF val > acc.max_val THEN [max_val |-> val, best_combo |-> combo] ELSE acc

\* for combo in combos[lo..hi]: the loop body applied left to right, acc being
\* (max_val, best_combo) on entry.  The range is split in two only to keep the
\* evaluation shallow: the first half runs to its end (max_val never falls
\* below its initial -1), then the second half starts from its outcome.
RECURSIVE ForCombos(_, _, _, _, _, _)
ForCombos(meta, cs, mode, lo, hi, acc) ==
    IF lo > hi THEN acc
    ELSE IF lo = hi THEN LoopBody(acc, cs[lo], Val(meta, cs[lo], mode))
    ELSE LET mid == (lo + hi) \div 2
             firstHalf == ForCombos(meta, cs, mode, lo, mid, acc)
         IN  CASE firstHalf.max_val >= -1 ->
                  ForCombos(meta, cs, mode, mid + 1, hi, firstHalf)

\* best_combo = None; max_val = -1; the scoring loop of the chosen strategy
Optimize(meta, cs, mode) ==
    ForCombos(meta, cs, mode, 1, Len(cs), [max_val |-> -1, best_combo |-> None])

(* ----------------------------- metrics -------------------------------- *)
\* default_sel = [station_metadata[i]['name'] for i in best_combo] if best_combo else []
DefaultSel(meta, best) ==
    IF best = None \/ best = <<>> THEN <<>>
    ELSE [i \in 1..Len(best) |-> meta[best[i] + 1].name]

InList(x, s) == \E i \in 1..Len(s) : s[i] = x

\* active_data = [s for s in station_metadata if s['name'] in active_names]
RECURSIVE ActiveData(_, _, _)
ActiveData(meta, names, i) ==
    IF i > Len(meta) THEN <<>>
    ELSE (IF InList(meta[i].name, names) THEN <<i - 1>> ELSE <<>>)
         \o ActiveData(meta, names, i + 1)

\* all_ids = set().union(*[s['indices'] for s in active_data]) if active_data else set()
AllIds(meta, active) == UNION {meta[active[i] + 1].indices : i \in 1..Len(active)}

\* (variant: no guard, len(all_ids) / total_calls * 100)
CapPercUnguarded(ids, total) == <<Cardinality(ids) * 100, total>>

\* cap_perc = (len(all_ids) / total_calls * 100) if total_calls > 0 else 0
CapPerc(ids, total) == IF total > 0 THEN <<Cardinality(ids) * 100, total>> ELSE <<0, 1>>

\* uncovered = total_calls - len(all_ids)
Uncovered(ids, total) == total - Cardinality(ids)

(* ------------------------- the main logic ----------------------------- *)
Strategies == {"Max Response Volume", "Max Geographic Equity"}

\* The range st.slider("Drones to Deploy", 1, N, min(3, N)) offers.  With no station
\* the call is slider(1, 0, 0), whose arguments contradict each other: the library
\* either raises (the except branch shows a System Error) or widens the range to
\* the value given and returns 0.
SliderValues(n) == IF n >= 1 THEN 1..n ELSE {0}
SliderMayRaise(n) == n < 1

Idle ==
    /\ pc = "idle"
    /\ total_calls = 0
    /\ station_metadata = <<>>
    /\ k = 0
    /\ strategy = "Max Response Volume"
    /\ combos = <<>>
    /\ best_combo = None
    /\ max_val = -1
    /\ active_data = <<>>
    /\ all_ids = {}
    /\ cap_perc = <<0, 1>>
    /\ uncovered = 0

\* lines 190-251 for the slider value kk and the radio value mode
MainLogic(kk, mode) ==
    LET inCity == CallsInCity(df_calls, 1)
        meta == StationMetadata(df_stations_all, inCity, Len(df_stations_all))
        cs == Truncate(Combinations(Len(meta), kk))
        res == Optimize(meta, cs, mode)
        active == ActiveData(meta, DefaultSel(meta, res.best_combo), 1)
        ids == AllIds(meta, active)
    IN  /\ pc = "idle"
        /\ kk \in SliderValues(Len(df_stations_all))
        /\ pc' = "done"
        /\ total_calls' = Len(inCity)
        /\ station_metadata' = meta
        /\ k' = kk
        /\ strategy' = mode
        /\ combos' = cs
        /\ best_combo' = res.best_combo
        /\ max_val' = res.max_val
        /\ active_data' = active
        /\ all_ids' = ids
        /\ cap_perc' = CapPerc(ids, Len(inCity))
        /\ uncovered' = Uncovered(ids, Len(inCity))
        /\ UNCHANGED <<df_calls, df_stations_all, projVars, uiVars>>

\* the slider raises: except Exception as e: st.error(...)
MainLogicError ==
    LET inCity == CallsInCity(df_calls, 1)
    IN  /\ pc = "idle"
        /\ SliderMayRaise(Len(df_stations_all))
        /\ pc' = "error"
        /\ total_calls' = Len(inCity)
        /\ station_metadata' = StationMetadata(df_stations_all, inCity, Len(df_stations_all))
        /\ k' = 0
        /\ strategy' = "Max Response Volume"
        /\ combos' = <<>>
        /\ best_combo' = None
        /\ max_val' = -1
        /\ active_data' = <<>>
        /\ all_ids' = {}
        /\ cap_perc' = <<0, 1>>
        /\ uncovered' = 0
        /\ UNCHANGED <<df_calls, df_stations_all, projVars, uiVars>>

\* a widget changes (slider, radio): Streamlit runs the script again from its first
\* line, and every variable of the last run is computed anew
Rerun ==
    /\ pc \in {"done", "error"}
    /\ pc' = "idle"
    /\ total_calls' = 0
    /\ station_metadata' = <<>>
    /\ k' = 0
    /\ strategy' = "Max Response Volume"
    /\ combos' = <<>>
    /\ best_combo' = None
    /\ max_val' = -1
    /\ active_data' = <<>>
    /\ all_ids' = {}
    /\ cap_perc' = <<0, 1>>
    /\ uncovered' = 0
    /\ UNCHANGED <<df_calls, df_stations_all, projVars, uiVars>>

(* --------------------------- uploaded data ---------------------------- *)
Names == <<"S1", "S2", "S3", "S4", "S5", "S6", "S7", "S8", "S9", "S10", "S11", "S12", "S13", "S14">>

\* station names: all different, or the last station carrying the name of the first
NameLists(n) ==
    {[i \in 1..n |-> Names[i]], [i \in 1..n |-> IF i = n THEN Names[1] ELSE Names[i]]}

\* which raw incidents lie within the boundary: all of them, or all but one
WithinLists(nc) ==
    {[j \in 1..nc |-> TRUE]} \cup {[j \in 1..nc |-> j # out] : out \in 1..nc}

\* a station's distances to the raw incidents, each on the radius or one centimetre
\* beyond it: beyond for all, on it for all, on it for the first or the last only
DistRows(nc) ==
    {[j \in 1..nc |-> radius_m + 1], [j \in 1..nc |-> radius_m],
     [j \in 1..nc |-> IF j = 1 THEN radius_m ELSE radius_m + 1],
     [j \in 1..nc |-> IF j = nc THEN radius_m ELSE radius_m + 1]}

\* a station's circle lies half outside the boundary, {0, 1}, or inside it, {1, 2}:
\* all inside, or every second one from the first or from the second
BufferLists(n) ==
    {[i \in 1..n |-> {1, 2}],
     [i \in 1..n |-> IF i % 2 = 1 THEN {1, 2} ELSE {0, 1}],
     [i \in 1..n |-> IF i % 2 = 1 THEN {0, 1} ELSE {1, 2}]}

SmallStationRows(n, nc) ==
    {[i \in 1..n |-> [name |-> nm[i], dist |-> d[i], buffer |-> b[i]]] :
        nm \in NameLists(n), d \in [1..n -> DistRows(nc)], b \in BufferLists(n)}

InitSmall ==
    \E nc \in 0..MaxCalls, n \in 0..MaxSmall :
        /\ df_calls \in WithinLists(nc)
        /\ df_stations_all \in SmallStationRows(n, nc)

\* many stations: stations a..b, b one of the last two, each cover one incident of
\* their own and one cell of the jurisdiction; the others cover nothing
InitLarge ==
    \E n \in (MaxSmall + 1)..MaxStations, a \in 1..(MaxStations + 1), b \in 0..MaxStations :
        /\ a <= n + 1 /\ b \in {n - 1, n} /\ b >= a - 1
        /\ df_calls = [j \in 1..(b - a + 1) |-> TRUE]
        /\ df_stations_all =
              [i \in 1..n |->
                 [name |-> Names[i],
                  dist |-> [j \in 1..(b - a + 1) |->
                               IF i = a + j - 1 THEN radius_m ELSE radius_m + 1],
                  buffer |-> IF i >= a /\ i <= b THEN {i} ELSE {0}]]

(* ------------------------ projection code ----------------------------- *)
\* Python's int(): truncation towards zero of num / den, den > 0
IntTrunc(num, den) == IF num >= 0 THEN num \div den ELSE -((-num) \div den)

\* utm_zone = int((city_boundary.centroid.x + 180) / 6) + 1
UtmZone(x) == IntTrunc(x + 180, 6) + 1

\* str() of a natural number, as its decimal digits
RECURSIVE Str(_)
Str(n) == IF n < 10 THEN <<n>> ELSE Str(n \div 10) \o <<n % 10>>

\* epsg_code = f"326{utm_zone}" if city_boundary.centroid.y > 0 else f"327{utm_zone}"
EpsgCode(zone, y) == IF y > 0 THEN <<3, 2, 6>> \o Str(zone) ELSE <<3, 2, 7>> \o Str(zone)

\* the EPSG number to_crs(epsg=epsg_code) reads from the string
RECURSIVE EpsgNumber(_)
EpsgNumber(digits) ==
    IF digits = <<>> THEN 0
    ELSE EpsgNumber(SubSeq(digits, 1, Len(digits) - 1)) * 10 + digits[Len(digits)]

ProjIdle ==
    /\ utm_zone = 0
    /\ epsg_code = <<>>

\* lines 185-186
Project ==
    /\ epsg_code = <<>>
    /\ utm_zone' = UtmZone(centroid.x)
    /\ epsg_code' = EpsgCode(UtmZone(centroid.x), centroid.y)
    /\ UNCHANGED <<centroid, optVars, uiVars>>

\* the jurisdiction selection changes: the script runs again
Reselect ==
    /\ epsg_code # <<>>
    /\ utm_zone' = 0
    /\ epsg_code' = <<>>
    /\ UNCHANGED <<centroid, optVars, uiVars>>

(* --------------------------- upload panel ----------------------------- *)
NoRun == [auto_close |-> FALSE, main |-> FALSE, reset |-> FALSE]

\* line 116 on the first run of a session, nothing uploaded yet
UiIdle ==
    /\ box_open = TRUE
    /\ call_data = FALSE
    /\ station_data = FALSE
    /\ shape_components = 0
    /\ run_pending = FALSE
    /\ reset_clicked = FALSE
    /\ reset_shown = FALSE
    /\ last_run = NoRun
    /\ chain = 0
    /\ was_complete = FALSE

\* the upload is complete and the panel has closed: the main logic runs
UiLoaded ==
    /\ box_open = FALSE
    /\ call_data = TRUE
    /\ station_data = TRUE
    /\ shape_components = 4
    /\ run_pending = FALSE
    /\ reset_clicked = FALSE
    /\ reset_shown = FALSE
    /\ last_run = NoRun
    /\ chain = 0
    /\ was_complete = TRUE

\* (variant: without "and st.session_state.box_open")
AutoCloseAlways(calls, stations, shapes, open) == calls /\ stations /\ shapes >= 4

\* if call_data and station_data and len(shape_components) >= 4 and st.session_state.box_open
AutoClose(calls, stations, shapes, open) == calls /\ stations /\ shapes >= 4 /\ open

\* if call_data and station_data and len(shape_components) >= 3
RunsMain(calls, stations, shapes) == calls /\ stations /\ shapes >= 3

\* the user adds files to the uploader or removes some: Streamlit queues a run
ChangeUpload(calls, stations, shapes) ==
    /\ <<calls, stations, shapes>> # <<call_data, station_data, shape_components>>
    /\ call_data' = calls
    /\ station_data' = stations
    /\ shape_components' = shapes
    /\ run_pending' = TRUE
    /\ reset_clicked' = FALSE
    /\ chain' = 0
    /\ was_complete' = (was_complete \/ (calls /\ stations /\ shapes >= 4))
    /\ UNCHANGED <<box_open, reset_shown, last_run, optVars, projVars>>

\* the user presses "Reset Data Upload": st.button returns True in the run it starts
PressReset ==
    /\ reset_shown
    /\ ~run_pending
    /\ run_pending' = TRUE
    /\ reset_clicked' = TRUE
    /\ chain' = 0
    /\ UNCHANGED <<box_open, call_data, station_data, shape_components, reset_shown,
                   last_run, was_complete, optVars, projVars>>

\* One run of the script, lines 116-338.  reaches_controls: the try block gets to
\* line 219 without raising (an exception ends in the except branch, line 335).
\* st.rerun() leaves the run through a control exception that is no subclass of
\* Exception, so the except branch does not stop the rerun of line 221.
ScriptRun(reaches_controls) ==
    /\ run_pending
    /\ chain < MaxChain
    /\ chain' = chain + 1
    /\ reset_clicked' = FALSE
    /\ IF AutoClose(call_data, station_data, shape_components, box_open)
       THEN \* lines 163-164: st.rerun() ends this run and queues the next
            /\ box_open' = FALSE
            /\ run_pending' = TRUE
            /\ reset_shown' = FALSE
            /\ last_run' = [auto_close |-> TRUE, main |-> FALSE, reset |-> FALSE]
       ELSE IF RunsMain(call_data, station_data, shape_components)
       THEN IF reaches_controls /\ reset_clicked
            THEN \* lines 219-221
                 /\ box_open' = TRUE
                 /\ run_pending' = TRUE
                 /\ reset_shown' = FALSE
                 /\ last_run' = [auto_close |-> FALSE, main |-> TRUE, reset |-> TRUE]
            ELSE /\ box_open' = box_open
                 /\ run_pending' = FALSE
                 /\ reset_shown' = reaches_controls
                 /\ last_run' = [auto_close |-> FALSE, main |-> TRUE, reset |-> FALSE]
       ELSE \* line 338: awaiting data
            /\ box_open' = box_open
            /\ run_pending' = FALSE
            /\ reset_shown' = FALSE
            /\ last_run' = NoRun
    /\ UNCHANGED <<call_data, station_data, shape_components, was_complete, optVars, projVars>>

(* -------------------------- specifications ---------------------------- *)
\* the optimizer and the metrics on uploaded data
Init ==
    /\ Idle
    /\ InitSmall \/ InitLarge
    /\ centroid = [x |-> 0, y |-> 1]
    /\ ProjIdle
    /\ UiLoaded

Next ==
    \/ \E kk \in 0..MaxStations, mode \in Strategies : MainLogic(kk, mode)
    \/ MainLogicError
    \/ Rerun

Spec == Init /\ [][Next]_vars

\* the projection code for every centroid
InitProj ==
    /\ Idle
    /\ df_calls = <<>>
    /\ df_stations_all = <<>>
    /\ centroid \in [x : -180..180, y : -MaxLat..MaxLat]
    /\ ProjIdle
    /\ UiLoaded

NextProj ==
    \/ Project
    \/ Reselect

SpecProj == InitProj /\ [][NextProj]_vars

\* the upload panel
InitUI ==
    /\ Idle
    /\ df_calls = <<>>
    /\ df_stations_all = <<>>
    /\ centroid = [x |-> 0, y |-> 1]
    /\ ProjIdle
    /\ UiIdle

NextUI ==
    \/ \E calls \in BOOLEAN, stations \in BOOLEAN, shapes \in 0..MaxShapes :
            ChangeUpload(calls, stations, shapes)
    \/ PressReset
    \/ \E reaches_controls \in BOOLEAN : ScriptRun(reaches_controls)

SpecUI == InitUI /\ [][NextUI]_vars

\* Streamlit executes every run it has queued
SpecUIFair == SpecUI /\ WF_vars(\E reaches_controls \in BOOLEAN : ScriptRun(reaches_controls))

(* ======================= properties of the runs ======================= *)
Done == pc = "done"
N == Len(station_metadata)
Volume == strategy = "Max Response Volume"

Min(a, b) == IF a < b THEN a ELSE b

\* n choose kk
RECURSIVE Binom(_, _)
Binom(n, kk) == IF kk = 0 THEN 1 ELSE (Binom(n, kk - 1) * (n - kk + 1)) \div kk

\* c is a size-kk combination of the station indices 0..n-1, as an increasing tuple
IsCombo(c, n, kk) ==
    /\ Len(c) = kk
    /\ \A i \in 1..kk : c[i] \in 0..(n - 1)
    /\ \A i \in 1..(kk - 1) : c[i] < c[i + 1]

\* the number of size-Len(c) combinations of 0..n-1 after c in lexicographic order:
\* those that agree with c before position i and are larger at position i
RECURSIVE CombosAfter(_, _, _)
CombosAfter(c, n, i) ==
    IF i > Len(c) THEN 0
    ELSE Binom(n - 1 - c[i], Len(c) - i + 1) + CombosAfter(c, n, i + 1)

\* the number of combinations before c in lexicographic order
LexRank(c, n) == Binom(n, Len(c)) - 1 - CombosAfter(c, n, 1)

\* the score of a set of station indices
SetScore(S) ==
    IF Volume THEN Cardinality(UNION {station_metadata[i + 1].indices : i \in S})
    ELSE Cardinality(UNION {station_metadata[i + 1].clipped_m : i \in S})

TupleSet(c) == {c[i] : i \in 1..Len(c)}

SetMax(S) == CHOOSE m \in S : \A x \in S : x <= m

\* every set of kk station indices
KSubsets(n, kk) == {S \in SUBSET (0..(n - 1)) : Cardinality(S) = kk}

\* C1: with 1 <= k <= N, the combinations scored are exactly the first
\* min(C(N,k), 500) size-k combinations in lexicographic order, the score returned
\* is the largest score among them, and it is the largest score of all size-k
\* combinations when C(N,k) <= 500.
C1_CapCorrectness ==
    (Done /\ k >= 1) =>
        /\ Len(combos) = Min(Binom(N, k), 500)
        /\ \A i \in 1..Len(combos) :
              IsCombo(combos[i], N, k) /\ LexRank(combos[i], N) = i - 1
        /\ max_val = SetMax({SetScore(TupleSet(combos[i])) : i \in 1..Len(combos)})
        /\ \E i \in 1..Len(combos) :
              best_combo = combos[i] /\ SetScore(TupleSet(combos[i])) = max_val
        /\ Binom(N, k) <= 500 =>
              max_val = SetMax({SetScore(S) : S \in KSubsets(N, k)})

\* a truncated enumeration whose best score is below the score of a combination
\* that was not examined
C1_Witness ==
    /\ Done /\ k >= 1
    /\ Binom(N, k) > 500
    /\ Len(combos) = 500
    /\ max_val < Cardinality(UNION {station_metadata[i].indices : i \in (N - k + 1)..N})

\* C2: the combination returned is the earliest examined combination that reaches
\* the largest score: every earlier one scores less, no later one scores more.
C2_TieBreak ==
    (Done /\ k >= 1) =>
        \E i \in 1..Len(combos) :
            /\ best_combo = combos[i]
            /\ \A j \in 1..(i - 1) : SetScore(TupleSet(combos[j])) < SetScore(TupleSet(combos[i]))
            /\ \A j \in (i + 1)..Len(combos) :
                  SetScore(TupleSet(combos[j])) <= SetScore(TupleSet(combos[i]))

\* a later combination ties with the one returned, which is not the first examined
C2_Witness ==
    /\ Done /\ k >= 1
    /\ \E i \in 2..Len(combos), j \in 2..Len(combos) :
          /\ i < j
          /\ best_combo = combos[i]
          /\ SetScore(TupleSet(combos[j])) = max_val

\* C3: the best score found for k stations is at least the best score found for
\* k - 1 stations on the same station list, in the same mode, under the same cap.
C3_Monotone ==
    (Done /\ k >= 2) =>
        max_val >= Optimize(station_metadata, Truncate(Combinations(N, k - 1)), strategy).max_val

\* both enumerations truncated, the score growing with k
C3_Witness ==
    /\ Done /\ k >= 2
    /\ Binom(N, k) > 500 /\ Binom(N, k - 1) > 500
    /\ max_val > Optimize(station_metadata, Truncate(Combinations(N, k - 1)), strategy).max_val

\* the identifier of raw incident j among the incidents within the boundary
PointIdx(j) == Cardinality({q \in 1..(j - 1) : df_calls[q]})

\* C4: every coverage set holds identifiers of in-boundary incidents only, so the
\* covered count lies in 0..total_calls and uncovered = total_calls - covered >= 0.
C4_SubsetInvariant ==
    Done =>
        /\ total_calls = Cardinality({j \in 1..Len(df_calls) : df_calls[j]})
        /\ \A i \in 1..N : station_metadata[i].indices \subseteq 0..(total_calls - 1)
        /\ all_ids = UNION {station_metadata[active_data[i] + 1].indices : i \in 1..Len(active_data)}
        /\ Cardinality(all_ids) >= 0
        /\ Cardinality(all_ids) <= total_calls
        /\ uncovered = total_calls - Cardinality(all_ids)
        /\ uncovered >= 0

\* an incident outside the boundary lies in reach of a station, and the active
\* stations cover an incident within
C4_Witness ==
    /\ Done /\ k >= 1
    /\ \E j \in 1..Len(df_calls), i \in 1..N :
          ~df_calls[j] /\ df_stations_all[i].dist[j] <= radius_m
    /\ Len(df_calls) > total_calls
    /\ Cardinality(all_ids) > 0

\* C5: with no incident within the boundary and at least one station, the run does
\* not end in an error, and it reports capacity 0 % and 0 uncovered.
C5_ZeroGuard ==
    ((\A j \in 1..Len(df_calls) : ~df_calls[j]) /\ Len(df_stations_all) >= 1) =>
        /\ pc # "error"
        /\ Done => /\ total_calls = 0
                   /\ cap_perc[2] # 0
                   /\ cap_perc[1] = 0
                   /\ uncovered = 0

C5_Witness ==
    /\ Done
    /\ total_calls = 0
    /\ Len(df_calls) >= 1
    /\ N >= 2 /\ k = 2
    /\ ~Volume

\* C6: a run with no station, or with k < 1 or k > N, ends in an error; nothing is
\* scored, no combination is returned and no metrics are computed.
C6_InvalidInputFails ==
    (pc \in {"done", "error"} /\ (Len(df_stations_all) = 0 \/ k < 1 \/ k > Len(df_stations_all))) =>
        /\ pc = "error"
        /\ combos = <<>>
        /\ best_combo = None
        /\ active_data = <<>>

\* C7: an incident is in a station's coverage set exactly if it lies within the
\* boundary and is at most 3218.69 m (321869 cm) from the station.
C7_ClosedRadius ==
    Done =>
        \A i \in 1..N :
            /\ station_metadata[i].indices =
                  {PointIdx(j) : j \in {q \in 1..Len(df_calls) :
                                           df_calls[q] /\ df_stations_all[i].dist[q] <= 321869}}
            /\ \A j \in 1..Len(df_calls) :
                  /\ (df_calls[j] /\ df_stations_all[i].dist[j] = 321869)
                        => PointIdx(j) \in station_metadata[i].indices
                  /\ (df_calls[j] /\ df_stations_all[i].dist[j] = 321870
                          /\ \A q \in 1..Len(df_calls) : df_stations_all[i].dist[q] = 321870)
                        => station_metadata[i].indices = {}

\* one station with an incident at 3218.69 m, covered, and one at 3218.70 m, not covered
C7_Witness ==
    /\ Done
    /\ \E i \in 1..N, j \in 1..Len(df_calls), q \in 1..Len(df_calls) :
          /\ df_calls[j] /\ df_calls[q]
          /\ df_stations_all[i].dist[j] = 321869
          /\ df_stations_all[i].dist[q] = 321870
          /\ PointIdx(j) \in station_metadata[i].indices
          /\ PointIdx(q) \notin station_metadata[i].indices

\* C8: the active stations are exactly the stations of the combination returned,
\* in station order, k of them; in Volume mode the covered count is the best score.
C8_ActiveIsBestCombo ==
    (Done /\ k >= 1) =>
        /\ active_data = best_combo
        /\ Len(active_data) = k
        /\ Volume => Cardinality(all_ids) = max_val

(* ================== properties of the projection code ================= *)
\* C9: for a centroid longitude in [-180, 180) the zone is floor((lon + 180) / 6) + 1,
\* in 1..60, and the EPSG code is 32600 + zone north of the equator, else 32700 + zone.
C9_UtmEpsgCode ==
    (epsg_code # <<>> /\ centroid.x >= -180 /\ centroid.x < 180) =>
        /\ utm_zone = ((centroid.x + 180) \div 6) + 1
        /\ utm_zone \in 1..60
        /\ Len(epsg_code) = 5
        /\ EpsgNumber(epsg_code) = (IF centroid.y > 0 THEN 32600 ELSE 32700) + utm_zone

(* ===================== properties of the upload panel ================= *)
Complete == call_data /\ station_data /\ shape_components >= 4

C10_Safe ==
    /\ chain <= 3
    /\ chain = 3 => ~run_pending
    /\ (Complete /\ ~run_pending) => (~box_open /\ chain >= 1 /\ ~last_run.auto_close)
    /\ last_run.auto_close => (shape_components >= 4 \/ chain = 0)
    /\ (call_data /\ station_data /\ shape_components = 3 /\ ~run_pending /\ chain >= 1)
          => (last_run.main /\ ~last_run.auto_close)
    /\ ~was_complete => box_open

\* C10: with calls.csv, stations.csv and at least 4 components uploaded, a chain of
\* runs ends after at most 3 runs (reset, auto-close, main logic) and comes to rest
\* with box_open = False.  Auto-close fires only with at least 4 components: with 3
\* the main logic runs, and box_open is True unless the upload was complete before.
C10_UploadPanel ==
    /\ []C10_Safe
    /\ (Complete /\ run_pending) ~> (~Complete \/ (~run_pending /\ ~box_open))

\* the chain started by Reset: the reset run, the auto-close run, the main logic
C10_Witness ==
    /\ Complete /\ ~run_pending
    /\ chain = 3
    /\ ~box_open

====
